---- MODULE Spec2Model ----
(***************************************************************************)
(* A model of rabbithole: the conversation parser (ingest.py), the topic   *)
(* reconciler and maintenance merge (ingest.py) and the research cycle     *)
(* (agent.py) over the relational store declared in models.py.             *)
(*                                                                         *)
(* Text is modelled as a sequence of one-character strings, so that the    *)
(* string operations of the source (lower, strip, replace, split, join)    *)
(* are computed rather than assumed.  Timestamps are integers; Python's    *)
(* None is the string "None" for identifiers and NoneTs for timestamps.    *)
(***************************************************************************)
EXTENDS Integers, Sequences, FiniteSets, TLC

VARIABLES
    raw,            \* the export handed to the parser (json.load result)
    parse_pc,       \* "ready" | "returned" | "raised"
    parse_entry,    \* which entry point ran: "none" | "file" | "bytes"
    parsed          \* the list the parser returned (<<>> before and on raise)

parse_vars == <<raw, parse_pc, parse_entry, parsed>>

VARIABLES
    conversations,              \* rows of table conversations
    rabbit_holes,               \* rows of table rabbit_holes (the topics)
    rabbit_hole_conversations,  \* rows of the link table
    insights,                   \* rows of table insights
    research_runs,              \* rows of table research_runs
    daily_plans,                \* rows of table daily_plans
    seqs,                       \* the SERIAL sequences, by table
    now,                        \* NOW(): the instant of the last store timestamp
    today,                      \* date.today(), in days since FirstDay
    pc,                         \* "idle" | "dedup" | "cycle"
    tx,                         \* the open transaction of the merge
    cyc,                        \* the frame of the running research cycle
    lastOp                      \* what the last call did (for the claims)

db == <<conversations, rabbit_holes, rabbit_hole_conversations,
        insights, research_runs, daily_plans>>
store_vars == <<db, seqs, now, today, pc, tx, cyc, lastOp>>

VARIABLES
    names,          \* the two topic names handed to _normalize_rh_name
    keys            \* "none", or the two keys it returned

norm_vars == <<names, keys>>

VARIABLES
    AGENT_STATUS,   \* the module-level dict of main.py: running, runs_completed
    workers,        \* the threads that run background tasks and the job
    reply           \* the status the last POST /agent/run answered

agent_vars == <<AGENT_STATUS, workers, reply>>
vars == <<parse_vars, store_vars, norm_vars, agent_vars>>

\* ---------------------------------------------------------------- bounds
\* Most mapping nodes per conversation record in an enumerated export.
MaxNodes == 2
\* Most words in an enumerated topic name.
MaxWords == 2
\* Threads available to background tasks and the scheduled job.
MaxWorkers == 3
\* Most cycles counted in AGENT_STATUS["runs_completed"].
MaxRuns == 2

\* ------------------------------------------------------------- constants
\* A timestamp that is None (ingest.py:115-116).
NoneTs == -1
\* datetime.min as an instant: no converted timestamp lies before it.
DatetimeMin == 0

\* ------------------------------------------------------------------ text
IsSpace(c) == c \in {" ", "\t", "\n"}

RECURSIVE LStrip(_)
LStrip(s) ==
    IF s = <<>> THEN <<>>
    ELSE IF IsSpace(Head(s)) THEN LStrip(Tail(s)) ELSE s

RECURSIVE RStrip(_)
RStrip(s) ==
    IF s = <<>> THEN <<>>
    ELSE IF IsSpace(s[Len(s)]) THEN RStrip(SubSeq(s, 1, Len(s) - 1)) ELSE s

\* str.strip()
Strip(s) == RStrip(LStrip(s))

LowerChar(c) ==
    CASE c = "R" -> "r"
      [] c = "D" -> "d"
      [] c = "G" -> "g"
      [] c = "O" -> "o"
      [] c = "A" -> "a"
      [] c = "N" -> "n"
      [] OTHER -> c

\* A slip that leaves the case as it is.
LowerKeepsCase(s) == s

\* str.lower()
Lower(s) == [i \in 1..Len(s) |-> LowerChar(s[i])]

\* str.replace("&", "and")
RECURSIVE ReplaceAmp(_)
ReplaceAmp(s) ==
    IF s = <<>> THEN <<>>
    ELSE IF Head(s) = "&" THEN <<"a", "n", "d">> \o ReplaceAmp(Tail(s))
    ELSE <<Head(s)>> \o ReplaceAmp(Tail(s))

\* str.split(): the maximal runs of non-whitespace characters, in order.
RECURSIVE SplitFrom(_, _)
SplitFrom(s, word) ==
    IF s = <<>> THEN (IF word = <<>> THEN <<>> ELSE <<word>>)
    ELSE IF IsSpace(Head(s))
         THEN (IF word = <<>> THEN <<>> ELSE <<word>>) \o SplitFrom(Tail(s), <<>>)
         ELSE SplitFrom(Tail(s), Append(word, Head(s)))

Split(s) == SplitFrom(s, <<>>)

\* sep.join(words)
RECURSIVE Join(_, _)
Join(sep, words) ==
    IF words = <<>> THEN <<>>
    ELSE IF Len(words) = 1 THEN words[1]
    ELSE words[1] \o sep \o Join(sep, Tail(words))

\* _normalize_rh_name
NormalizeRhName(name) ==
    IF name = <<>> THEN <<>>
    ELSE Join(<<" ">>, Split(ReplaceAmp(Strip(Lower(name)))))

\* ---------------------------------------------------------------- parser
\* One content part: a string (is_str) with its characters, or another JSON
\* value such as an image pointer object.
StrPart(s) == [is_str |-> TRUE, s |-> s]
ObjPart == [is_str |-> FALSE, s |-> <<>>]

\* A mapping node as json.load delivers it.  node/author/content/parts say
\* whether the JSON value is an object ("obj"/"list"), null or absent.
MkNode(node, message, author, role, content, parts, items, create_time) ==
    [node |-> node, message |-> message, author |-> author, role |-> role,
     content |-> content, parts |-> parts, items |-> items,
     create_time |-> create_time]

MsgNode(role, items, ts) ==
    MkNode("obj", "obj", "obj", role, "obj", "list", items, ts)

NodeUser1 == MsgNode("user", <<StrPart(<<"h", "i">>)>>, 1)
NodeAsst2 == MsgNode("assistant", <<StrPart(<<"y", "o">>), ObjPart, StrPart(<<"k">>)>>, 2)
NodeUserNoTs == MsgNode("user", <<StrPart(<<"o", "k">>)>>, NoneTs)
NodeSystem == MsgNode("system", <<StrPart(<<"s", "y">>)>>, 1)
NodeBlank == MsgNode("user", <<StrPart(<<" ", "\n">>), StrPart(<<>>), ObjPart>>, 1)
NodeNoMessage == MkNode("obj", "absent", "absent", "absent", "absent", "absent", <<>>, NoneTs)
NodeNull == MkNode("null", "absent", "absent", "absent", "absent", "absent", <<>>, NoneTs)
NodeNullAuthor == MkNode("obj", "obj", "null", "absent", "obj", "list", <<StrPart(<<"h", "i">>)>>, 1)
NodeNullParts == MkNode("obj", "obj", "obj", "user", "obj", "null", <<>>, 1)

WellFormedNodes ==
    {NodeUser1, NodeAsst2, NodeUserNoTs, NodeSystem, NodeBlank, NodeNoMessage}
MalformedNodes == {NodeNull, NodeNullAuthor, NodeNullParts}
NodeSet == WellFormedNodes \cup MalformedNodes

SeqsUpTo(S, n) == UNION {[1..k -> S] : k \in 0..n}

\* A conversation record is its mapping, in the document's key order.
Mappings == SeqsUpTo(NodeSet, MaxNodes)

\* _ts_to_dt
TsToDt(ts) == IF ts = NoneTs THEN NoneTs ELSE ts

\* A slip that keeps every string part, blank or not.
TextPartsKeepBlank(items) == SelectSeq(items, LAMBDA p : p.is_str)

\* [p for p in parts if isinstance(p, str) and p.strip()]
TextParts(items) == SelectSeq(items, LAMBDA p : p.is_str /\ Strip(p.s) # <<>>)

PartStrings(items) == [i \in 1..Len(items) |-> items[i].s]

\* What the loop body does with one node: "raise" (an AttributeError or
\* TypeError leaves the function), "skip" (continue) or "append".
NodeStep(node) ==
    IF node.node = "null" THEN "raise"                  \* None.get("message")
    ELSE IF node.message # "obj" THEN "skip"            \* if not msg: continue
    ELSE IF node.author = "null" THEN "raise"           \* None.get("role")
    ELSE IF node.role \notin {"user", "assistant"} THEN "skip"
    ELSE IF node.content = "null" THEN "raise"          \* None.get("parts")
    ELSE IF node.parts = "null" THEN "raise"            \* for p in None
    ELSE IF node.parts = "absent" \/ node.content = "absent" THEN "skip"
    ELSE IF TextParts(node.items) = <<>> THEN "skip"
    ELSE "append"

NodeMessage(node_id, node) ==
    [id |-> node_id,
     role |-> node.role,
     content |-> Join(<<"\n">>, PartStrings(TextParts(node.items))),
     created_at |-> TsToDt(node.create_time)]

\* The messages appended while walking mapping[i..], or a raise.
RECURSIVE Flatten(_, _)
Flatten(mapping, i) ==
    IF i > Len(mapping) THEN [raised |-> FALSE, messages |-> <<>>]
    ELSE LET step == NodeStep(mapping[i]) IN
         IF step = "raise" THEN [raised |-> TRUE, messages |-> <<>>]
         ELSE LET rest == Flatten(mapping, i + 1) IN
              IF rest.raised THEN rest
              ELSE IF step = "skip" THEN rest
              ELSE [raised |-> FALSE,
                    messages |-> <<NodeMessage(i, mapping[i])>> \o rest.messages]

\* The sort key of line 50: m["created_at"] or datetime.min
SortKey(m) == IF m.created_at = NoneTs THEN DatetimeMin ELSE m.created_at

\* list.sort(key=...): stable, ascending.
RECURSIVE InsertStable(_, _)
InsertStable(sorted, m) ==
    IF sorted = <<>> THEN <<m>>
    ELSE IF SortKey(m) < SortKey(Head(sorted))
         THEN <<m>> \o sorted
         ELSE <<Head(sorted)>> \o InsertStable(Tail(sorted), m)

RECURSIVE SortMessages(_)
SortMessages(ms) ==
    IF ms = <<>> THEN <<>>
    ELSE InsertStable(SortMessages(SubSeq(ms, 1, Len(ms) - 1)), ms[Len(ms)])

ParsedConversation(conv_id, messages) ==
    [id |-> conv_id, messages |-> messages, message_count |-> Len(messages)]

\* The loop over the records of the export: the list built so far, or a
\* raise that leaves the function without a result.
RECURSIVE ParseRecords(_, _)
ParseRecords(export, i) ==
    IF i > Len(export) THEN [raised |-> FALSE, conversations |-> <<>>]
    ELSE LET flat == Flatten(export[i], 1) IN
         IF flat.raised THEN [raised |-> TRUE, conversations |-> <<>>]
         ELSE LET rest == ParseRecords(export, i + 1) IN
              IF rest.raised THEN rest
              ELSE [raised |-> FALSE,
                    conversations |->
                        <<ParsedConversation(i, SortMessages(flat.messages))>>
                        \o rest.conversations]

ParseResult(export) == ParseRecords(export, 1)

\* ========================================================== the store
\* --------------------------------------------------------------- bounds
\* Most rows ever inserted into rabbit_holes.
MaxTopics == 2
\* Most clusters in one classifier output.
MaxClusters == 2
\* Most research passes (insights) ever persisted.
MaxInsights == 2
\* Most daily-plan upserts ever executed.
MaxPlans == 2
\* The largest num_holes a cycle is started with.
MaxLimit == 2

\* user_id None (single-tenant mode) and one signed-up user.
NoUser == "None"
Owners == {NoUser, "u1"}

\* The calendar day the model starts on, in days since datetime.min.
FirstDay == DatetimeMin + 1000

\* Topic names the classifier may propose.
NameAmp == <<"R", " ", "&", " ", "D">>
NameAnd == <<" ", "r", " ", " ", "A", "N", "D", " ", "d">>
NameGo == <<"G", "o">>
NameSet == {NameAmp, NameAnd, NameGo}

\* The parsed export passed as `conversations`: c1 was created three days
\* before the model starts, c2 carries no timestamp.
ExportConvs ==
    << [id |-> "c1", message_count |-> 4, created_at |-> FirstDay - 3,
        updated_at |-> NoneTs],
       [id |-> "c2", message_count |-> 6, created_at |-> NoneTs,
        updated_at |-> NoneTs] >>

\* The clusters a classifier reply may hold: "c9" is in no export, and a
\* reply may name a conversation twice.
Clusters ==
    { [name |-> NameAmp, conversation_ids |-> <<"c1">>],
      [name |-> NameAnd, conversation_ids |-> <<"c1", "c2", "c9">>],
      [name |-> NameGo, conversation_ids |-> <<"c2", "c2">>] }
ClassifierOutputs == SeqsUpTo(Clusters, MaxClusters)

Range(f) == {f[i] : i \in DOMAIN f}
Max2(a, b) == IF a >= b THEN a ELSE b

\* _normalize_rh_name over the names that occur, computed once.
NormTable == [n \in NameSet |-> NormalizeRhName(n)]
Norm(name) == NormTable[name]

\* prefix + cid, with prefix = f"{user_id}:" or "".
PrefixedId(user_id, cid) == <<user_id, cid>>

\* ------------------------------------------------- insert_conversations
ConversationRow(user_id, c) ==
    [id |-> PrefixedId(user_id, c.id), user_id |-> user_id,
     message_count |-> c.message_count]

\* What the last call did: its outcome (raised), the counters the source
\* prints (created, merged); for a failed merge, whether statements of the
\* failing group had already run (partial); for a cycle, the topics it
\* selected, the one whose research raised (0: none) and the ones persisted.
NoOp ==
    [op |-> "none", user |-> NoUser, raised |-> "none", created |-> 0,
     partial |-> FALSE, merged |-> 0, selected |-> {}, failed |-> 0,
     researched |-> {}, plan |-> "none"]

NoTx == [user |-> NoUser, work |-> <<>>, stmt |-> 1, merged |-> 0,
         rabbit_holes |-> {}, links |-> {}, insights |-> {}, runs |-> {}]

NoCycle == [user |-> NoUser, limit |-> 0, holes |-> <<>>, idx |-> 1,
            step |-> "research", synthesis |-> "none", researched |-> {}]

\* INSERT ... ON CONFLICT (id) DO NOTHING, for every parsed conversation.
InsertConversations(user_id) ==
    conversations' =
        conversations \cup
        {ConversationRow(user_id, ExportConvs[i]) :
            i \in {k \in 1..Len(ExportConvs) :
                    \A r \in conversations :
                        r.id # PrefixedId(user_id, ExportConvs[k].id)}}

\* ------------------------------------------------- extract_rabbit_holes
\* list(set(ids)): each id once (the order is not used afterwards).
RECURSIVE Dedupe(_)
Dedupe(ids) ==
    IF ids = <<>> THEN <<>>
    ELSE LET rest == Dedupe(SubSeq(ids, 1, Len(ids) - 1)) IN
         IF ids[Len(ids)] \in Range(rest) THEN rest
         ELSE Append(rest, ids[Len(ids)])

\* Lines 194-201: the dict `merged` as the list of its values in insertion
\* order.  The first proposal of a key is stored as it is; a later one
\* extends its conversation_ids, which are then passed through list(set()).
RECURSIVE MergeHoles(_, _)
MergeHoles(all_holes, merged) ==
    IF all_holes = <<>> THEN merged
    ELSE LET rh == Head(all_holes)
             key == Norm(rh.name)
             at == {i \in 1..Len(merged) : Norm(merged[i].name) = key}
         IN IF at # {}
            THEN LET i == CHOOSE k \in at : TRUE IN
                 MergeHoles(Tail(all_holes),
                    [merged EXCEPT ![i].conversation_ids =
                        Dedupe(merged[i].conversation_ids \o rh.conversation_ids)])
            ELSE MergeHoles(Tail(all_holes), Append(merged, rh))

\* Lines 208-212.  conn.cursor() is psycopg2's default cursor (db.py:15
\* passes no cursor_factory), whose rows are tuples: row["name"] raises
\* TypeError on the first row fetched.  With no user id nothing is loaded.
LoadExisting(user_id) ==
    LET rows == IF user_id # NoUser
                THEN {r \in rabbit_holes : r.user_id = user_id}
                ELSE {}
    IN [raised |-> rows # {}, existing_by_norm |-> {}]

\* round(x, 2) of a score held in hundredths.
Round2(hundredths) == hundredths

\* Lines 216-225, in hundredths.
Priority(rh, t) ==
    LET raw_conv_ids == rh.conversation_ids
        conv_data == SelectSeq(ExportConvs, LAMBDA c : c.id \in Range(raw_conv_ids))
        total_msgs == IF conv_data = <<>> THEN 0
                      ELSE LET S[i \in 0..Len(conv_data)] ==
                                IF i = 0 THEN 0 ELSE S[i - 1] + conv_data[i].message_count
                           IN S[Len(conv_data)]
        stamp(c) == IF c.updated_at # NoneTs THEN c.updated_at
                    ELSE IF c.created_at # NoneTs THEN c.created_at
                    ELSE DatetimeMin
        latest == LET L[i \in 1..Len(conv_data)] ==
                        IF i = 1 THEN stamp(conv_data[1])
                        ELSE Max2(L[i - 1], stamp(conv_data[i]))
                  IN L[Len(conv_data)]
        recency_bonus == IF conv_data = <<>> THEN 0
                         ELSE Max2(0, 1000 - 10 * (t - latest))
    IN Round2(Len(raw_conv_ids) * 200 + total_msgs * 10 + recency_bonus)

\* The link statement of lines 240-246 for one cluster: a row for every
\* proposed id whose conversation row exists; ON CONFLICT DO NOTHING.
NewLinks(user_id, rh_id, raw_conv_ids) ==
    {[rabbit_hole_id |-> rh_id, conversation_id |-> PrefixedId(user_id, cid)] :
        cid \in {c \in Range(raw_conv_ids) :
                    \E r \in conversations' : r.id = PrefixedId(user_id, c)}}

\* Lines 215-246: the loop over merged.values(), from a store state
\* st = [holes, links, seq, existing, created], against the conversations
\* table as insert_conversations has just left it.  existing is the set of
\* <<normalized name, id>> pairs of existing_by_norm.
RECURSIVE Reconcile(_, _, _)
Reconcile(user_id, merged, st) ==
    IF merged = <<>> THEN st
    ELSE LET rh == Head(merged)
             norm == Norm(rh.name)
             hit == {e \in st.existing : e[1] = norm}
             reuse == hit # {}
             rh_id == IF reuse THEN (CHOOSE e \in hit : TRUE)[2] ELSE st.seq + 1
             row == [id |-> rh_id, user_id |-> user_id, name |-> rh.name,
                     priority_score |-> Priority(rh, FirstDay + today),
                     last_researched_at |-> NoneTs, status |-> "active"]
         IN Reconcile(user_id, Tail(merged),
                [holes |-> IF reuse THEN st.holes ELSE st.holes \cup {row},
                 links |-> st.links \cup NewLinks(user_id, rh_id, rh.conversation_ids),
                 seq |-> IF reuse THEN st.seq ELSE st.seq + 1,
                 existing |-> IF reuse THEN st.existing
                              ELSE st.existing \cup {<<norm, rh_id>>},
                 created |-> IF reuse THEN st.created ELSE st.created + 1])

ExtractRabbitHoles(user_id, all_holes) ==
    LET merged == MergeHoles(all_holes, <<>>)
        loaded == LoadExisting(user_id)
        st == Reconcile(user_id, merged,
                 [holes |-> rabbit_holes, links |-> rabbit_hole_conversations,
                  seq |-> seqs.rabbit_holes, existing |-> loaded.existing_by_norm,
                  created |-> 0])
    IN IF loaded.raised
       THEN /\ lastOp' = [NoOp EXCEPT !.op = "extract", !.user = user_id,
                             !.raised = "TypeError"]
            /\ UNCHANGED <<rabbit_holes, rabbit_hole_conversations, seqs>>
       ELSE /\ st.seq <= MaxTopics
            /\ rabbit_holes' = st.holes
            /\ rabbit_hole_conversations' = st.links
            /\ seqs' = [seqs EXCEPT !.rabbit_holes = st.seq]
            /\ lastOp' = [NoOp EXCEPT !.op = "extract", !.user = user_id,
                             !.created = st.created]

\* run(filepath, user_id) and run_from_bytes(data, user_id): parse, store the
\* conversations, classify and reconcile.  all_holes is what the classifier
\* returned over all batches.
Run(user_id, all_holes) ==
    /\ pc = "idle"
    /\ InsertConversations(user_id)
    /\ ExtractRabbitHoles(user_id, all_holes)
    /\ UNCHANGED <<insights, research_runs, daily_plans, now, today, pc, tx,
                   cyc, parse_vars,
                   norm_vars, agent_vars>>

\* The same entry points when the reply for one batch is not valid JSON:
\* json.loads raises in classify_conversations (akash.py:73) and the loop of
\* lines 187-191 has no handler, so the exception leaves extract_rabbit_holes
\* before line 193, whatever the other batches return.
RunClassifyRaises(user_id) ==
    /\ pc = "idle"
    /\ InsertConversations(user_id)
    /\ lastOp' = [NoOp EXCEPT !.op = "extract", !.user = user_id,
                     !.raised = "JSONDecodeError"]
    /\ UNCHANGED <<rabbit_holes, rabbit_hole_conversations, insights,
                   research_runs, daily_plans, seqs, now, today, pc, tx, cyc,
                   parse_vars,
                   norm_vars, agent_vars>>

\* --------------------------------------------- deduplicate_rabbit_holes
\* Lines 287-302: the rows read, grouped by (user_id, normalized name); for
\* every group of more than one row the pairs <<keep, duplicate>>, keep the
\* lowest id.  Groups and duplicates are taken in id order (the SELECT has
\* no ORDER BY; every order ends in the same rows).
DedupRows(holes, user_id) ==
    IF user_id # NoUser THEN {r \in holes : r.user_id = user_id} ELSE holes

SameKey(r, q) ==
    r.user_id = q.user_id /\ Norm(r.name) = Norm(q.name)

\* A slip that keeps the highest id of a group.
KeepOfHighest(rows, r) ==
    CHOOSE k \in rows : SameKey(k, r) /\ \A q \in rows : SameKey(q, r) => k.id >= q.id

\* keep = min(group, key=lambda r: r["id"])
KeepOf(rows, r) ==
    CHOOSE k \in rows : SameKey(k, r) /\ \A q \in rows : SameKey(q, r) => k.id <= q.id

RECURSIVE PairsInOrder(_)
PairsInOrder(pairs) ==
    IF pairs = {} THEN <<>>
    ELSE LET p == CHOOSE x \in pairs :
                    \A y \in pairs : x[1] < y[1] \/ (x[1] = y[1] /\ x[2] <= y[2])
         IN <<p>> \o PairsInOrder(pairs \ {p})

DedupPlan(holes, user_id) ==
    LET rows == DedupRows(holes, user_id) IN
    PairsInOrder({<<KeepOf(rows, r).id, r.id>> :
                    r \in {q \in rows : KeepOf(rows, q).id # q.id}})

\* The transaction as it starts: nothing executed, the plan to run.
BeginTx(user_id) ==
    [user |-> user_id, work |-> DedupPlan(rabbit_holes, user_id), stmt |-> 1,
     merged |-> 0, rabbit_holes |-> rabbit_holes,
     links |-> rabbit_hole_conversations, insights |-> insights,
     runs |-> research_runs]

\* A slip that leaves the duplicate's row in place.
DeleteRabbitHoleKeepsRow(holes, id) == holes

\* DELETE FROM rabbit_holes WHERE id = %s
DeleteRabbitHole(holes, id) == {r \in holes : r.id # id}

\* The next of the five statements of lines 304-313 for the pair at the
\* head of the plan, on the transaction's own view of the tables.
ApplyStmt(t) ==
    LET keep == Head(t.work)[1]
        dupe == Head(t.work)[2]
        moved(rows) == {IF r.rabbit_hole_id = dupe
                        THEN [r EXCEPT !.rabbit_hole_id = keep] ELSE r : r \in rows}
        u == [t EXCEPT !.stmt = t.stmt + 1]
    IN CASE t.stmt = 1 ->
                [u EXCEPT !.links = t.links \cup moved({l \in t.links : l.rabbit_hole_id = dupe})]
         [] t.stmt = 2 ->
                [u EXCEPT !.links = {l \in t.links : l.rabbit_hole_id # dupe}]
         [] t.stmt = 3 -> [u EXCEPT !.insights = moved(t.insights)]
         [] t.stmt = 4 -> [u EXCEPT !.runs = moved(t.runs)]
         [] OTHER ->
                \* the rows referencing the deleted topic go with it
                \* (ON DELETE CASCADE, models.py:45-63)
                [u EXCEPT !.rabbit_holes = DeleteRabbitHole(t.rabbit_holes, dupe),
                          !.links = IF \E r \in DeleteRabbitHole(t.rabbit_holes, dupe) : r.id = dupe
                                    THEN t.links
                                    ELSE {l \in t.links : l.rabbit_hole_id # dupe},
                          !.insights = IF \E r \in DeleteRabbitHole(t.rabbit_holes, dupe) : r.id = dupe
                                       THEN t.insights
                                       ELSE {i \in t.insights : i.rabbit_hole_id # dupe},
                          !.runs = IF \E r \in DeleteRabbitHole(t.rabbit_holes, dupe) : r.id = dupe
                                   THEN t.runs
                                   ELSE {i \in t.runs : i.rabbit_hole_id # dupe},
                          !.work = Tail(t.work), !.stmt = 1,
                          !.merged = t.merged + 1]

\* Lines 284-302: open the connection (autocommit off), read, plan.
DedupBegin(user_id) ==
    /\ pc = "idle"
    /\ pc' = "dedup"
    /\ tx' = BeginTx(user_id)
    /\ lastOp' = [NoOp EXCEPT !.op = "dedup_running", !.user = user_id]
    /\ UNCHANGED <<db, seqs, now, today, cyc, parse_vars,
                   norm_vars, agent_vars>>

\* A slip that runs the merge on an autocommit connection: every statement
\* is visible at once.
DedupStatementAutocommit ==
    /\ pc = "dedup"
    /\ tx.work # <<>>
    /\ tx' = ApplyStmt(tx)
    /\ rabbit_holes' = tx'.rabbit_holes
    /\ rabbit_hole_conversations' = tx'.links
    /\ insights' = tx'.insights
    /\ research_runs' = tx'.runs
    /\ UNCHANGED <<conversations, daily_plans, seqs, now, today, pc, cyc,
                   lastOp, parse_vars,
                   norm_vars, agent_vars>>

\* One statement runs inside the transaction: nothing is visible outside.
DedupStatement ==
    /\ pc = "dedup"
    /\ tx.work # <<>>
    /\ tx' = ApplyStmt(tx)
    /\ UNCHANGED <<db, seqs, now, today, pc, cyc, lastOp, parse_vars,
                   norm_vars, agent_vars>>

\* One statement fails: the exception leaves deduplicate_rabbit_holes
\* before conn.commit(); the connection is dropped and the server rolls
\* the transaction back.
DedupStatementFails ==
    /\ pc = "dedup"
    /\ tx.work # <<>>
    /\ pc' = "idle"
    /\ tx' = NoTx
    /\ lastOp' = [NoOp EXCEPT !.op = "dedup", !.user = tx.user,
                     !.raised = "StoreError", !.partial = (tx.stmt > 1),
                     !.merged = tx.merged]
    /\ UNCHANGED <<db, seqs, now, today, cyc, parse_vars,
                   norm_vars, agent_vars>>

\* Line 315: conn.commit() after the last group.
DedupCommit ==
    /\ pc = "dedup"
    /\ tx.work = <<>>
    /\ rabbit_holes' = tx.rabbit_holes
    /\ rabbit_hole_conversations' = tx.links
    /\ insights' = tx.insights
    /\ research_runs' = tx.runs
    /\ pc' = "idle"
    /\ tx' = NoTx
    /\ lastOp' = [NoOp EXCEPT !.op = "dedup", !.user = tx.user,
                     !.merged = tx.merged]
    /\ UNCHANGED <<conversations, daily_plans, seqs, now, today, cyc, parse_vars,
                   norm_vars, agent_vars>>

\* ------------------------------------------------ get_stale_rabbit_holes
\* WHERE status = 'active' [AND user_id = %s]
ActiveHoles(user_id) ==
    {r \in rabbit_holes :
        r.status = "active" /\ (user_id = NoUser \/ r.user_id = user_id)}

\* A slip that sorts NULLS LAST.
ComesBeforeNullsLast(a, b) ==
    \/ a.last_researched_at # NoneTs /\ b.last_researched_at = NoneTs
    \/ /\ a.last_researched_at # NoneTs
       /\ b.last_researched_at # NoneTs
       /\ a.last_researched_at < b.last_researched_at
    \/ /\ a.last_researched_at = b.last_researched_at
       /\ a.priority_score > b.priority_score

\* ORDER BY last_researched_at ASC NULLS FIRST, priority_score DESC:
\* a sorts strictly before b.
ComesBefore(a, b) ==
    \/ a.last_researched_at = NoneTs /\ b.last_researched_at # NoneTs
    \/ /\ a.last_researched_at # NoneTs
       /\ b.last_researched_at # NoneTs
       /\ a.last_researched_at < b.last_researched_at
    \/ /\ a.last_researched_at = b.last_researched_at
       /\ a.priority_score > b.priority_score

Min2(a, b) == IF a <= b THEN a ELSE b

\* The results the query may return: the first `limit` rows of an ordering
\* of the active rows by ComesBefore; rows that tie may come in any order.
StaleSelections(limit, user_id) ==
    LET act == ActiveHoles(user_id)
        n == Min2(limit, Cardinality(act))
    IN {s \in [1..n -> act] :
            /\ \A i, j \in 1..n : i < j => s[i] # s[j] /\ ~ComesBefore(s[j], s[i])
            /\ \A r \in act \ Range(s) : \A i \in 1..n : ~ComesBefore(r, s[i])}

\* --------------------------------------------------------------- run_cycle
PlanTexts == {"plan A", "plan B"}

\* Lines 156-161: select; return at once when nothing is selected.
CycleStart(user_id, limit) ==
    /\ pc = "idle"
    /\ \E sel \in StaleSelections(limit, user_id) :
        IF sel = <<>>
        THEN /\ lastOp' = [NoOp EXCEPT !.op = "cycle", !.user = user_id]
             /\ UNCHANGED <<pc, cyc>>
        ELSE /\ seqs.insights + Len(sel) <= MaxInsights
             /\ seqs.daily_plans < MaxPlans
             /\ pc' = "cycle"
             /\ cyc' = [user |-> user_id, limit |-> limit,
                        holes |-> [i \in 1..Len(sel) |-> sel[i].id],
                        idx |-> 1, step |-> "research", synthesis |-> "none",
                        researched |-> {}]
             /\ lastOp' = [NoOp EXCEPT !.op = "cycle_running", !.user = user_id]
    /\ UNCHANGED <<db, seqs, now, today, tx, parse_vars,
                   norm_vars, agent_vars>>

CurrentHole == cyc.holes[cyc.idx]

\* The exception leaves research_rabbit_hole and, run_cycle having no
\* handler around line 164, run_cycle too.
CycleRaises(error) ==
    /\ pc' = "idle"
    /\ cyc' = NoCycle
    /\ lastOp' = [NoOp EXCEPT !.op = "cycle", !.user = cyc.user,
                     !.raised = error, !.selected = Range(cyc.holes),
                     !.failed = CurrentHole, !.researched = cyc.researched]

\* A slip that stamps the topic as researched before the failure leaves.
ResearchFailsStamps(error) ==
    /\ pc = "cycle"
    /\ cyc.step = "research"
    /\ CycleRaises(error)
    /\ rabbit_holes' =
            {IF r.id = CurrentHole
             THEN [r EXCEPT !.last_researched_at = now + 1] ELSE r :
                r \in rabbit_holes}
    /\ now' = now + 1
    /\ UNCHANGED <<conversations, rabbit_hole_conversations, insights,
                   research_runs, daily_plans, seqs, today, tx, parse_vars,
                   norm_vars, agent_vars>>

\* research_rabbit_hole, lines 54-70: a search call fails (raise_for_status,
\* yousearch.py:23) or an LLM reply is not JSON (json.loads, akash.py:92,119).
ResearchFails(error) ==
    /\ pc = "cycle"
    /\ cyc.step = "research"
    /\ CycleRaises(error)
    /\ UNCHANGED <<db, seqs, now, today, tx, parse_vars,
                   norm_vars, agent_vars>>

\* What json.loads may return for the synthesis reply (akash.py:119): a
\* JSON object, with or without an "urgency" member, the member being
\* whatever the LLM wrote; or JSON of another shape (an array).
SynthesisReplies ==
    { [shape |-> "object", urgency |-> "absent"],
      [shape |-> "object", urgency |-> "critical"],
      [shape |-> "array", urgency |-> "absent"] }

\* synthesis.get("urgency", "low")
GetUrgency(synthesis) ==
    IF synthesis.urgency = "absent" THEN "low" ELSE synthesis.urgency

\* research_rabbit_hole, lines 54-70: queries and searches succeed and the
\* synthesis reply parses.  Line 70 calls synthesis.get: a reply that is not
\* an object raises AttributeError there, before anything is stored.
ResearchSynthesized(synthesis) ==
    /\ pc = "cycle"
    /\ cyc.step = "research"
    /\ IF synthesis.shape = "object"
       THEN /\ cyc' = [cyc EXCEPT !.step = "insight", !.synthesis = synthesis]
            /\ UNCHANGED <<pc, lastOp>>
       ELSE CycleRaises("AttributeError")
    /\ UNCHANGED <<db, seqs, now, today, tx, parse_vars,
                   norm_vars, agent_vars>>

\* Lines 78-82, autocommit.
InsertInsight ==
    /\ pc = "cycle"
    /\ cyc.step = "insight"
    /\ insights' = insights \cup
            {[id |-> seqs.insights + 1, rabbit_hole_id |-> CurrentHole,
              urgency |-> GetUrgency(cyc.synthesis)]}
    /\ seqs' = [seqs EXCEPT !.insights = seqs.insights + 1]
    /\ cyc' = [cyc EXCEPT !.step = "run"]
    /\ UNCHANGED <<conversations, rabbit_holes, rabbit_hole_conversations,
                   research_runs, daily_plans, now, today, pc, tx, lastOp,
                   parse_vars,
                   norm_vars, agent_vars>>

\* Lines 85-89, autocommit.
InsertResearchRun ==
    /\ pc = "cycle"
    /\ cyc.step = "run"
    /\ research_runs' = research_runs \cup
            {[id |-> seqs.research_runs + 1, rabbit_hole_id |-> CurrentHole]}
    /\ seqs' = [seqs EXCEPT !.research_runs = seqs.research_runs + 1]
    /\ cyc' = [cyc EXCEPT !.step = "update"]
    /\ UNCHANGED <<conversations, rabbit_holes, rabbit_hole_conversations,
                   insights, daily_plans, now, today, pc, tx, lastOp,
                   parse_vars,
                   norm_vars, agent_vars>>

\* Lines 92-100, autocommit; then the loop of line 162 goes on.
UpdateRabbitHole ==
    /\ pc = "cycle"
    /\ cyc.step = "update"
    /\ now' = now + 1
    /\ rabbit_holes' =
            {IF r.id = CurrentHole
             THEN [r EXCEPT !.last_researched_at = now + 1] ELSE r :
                r \in rabbit_holes}
    /\ cyc' = [cyc EXCEPT !.researched = cyc.researched \cup {CurrentHole},
                          !.synthesis = "none",
                          !.idx = IF cyc.idx < Len(cyc.holes)
                                  THEN cyc.idx + 1 ELSE cyc.idx,
                          !.step = IF cyc.idx < Len(cyc.holes)
                                   THEN "research" ELSE "plan"]
    /\ UNCHANGED <<conversations, rabbit_hole_conversations, insights,
                   research_runs, daily_plans, seqs, today, pc, tx, lastOp,
                   parse_vars,
                   norm_vars, agent_vars>>

\* One of the three statements of lines 78-95 fails in the store.
PersistFails ==
    /\ pc = "cycle"
    /\ cyc.step \in {"insight", "run", "update"}
    /\ CycleRaises("StoreError")
    /\ UNCHANGED <<db, seqs, now, today, tx, parse_vars,
                   norm_vars, agent_vars>>

\* INSERT ... ON CONFLICT (user_id, plan_date) DO UPDATE (agent.py:140-145)
\* against the unique index daily_plans_user_date (models.py:90): a row
\* conflicts when both columns are equal, and a NULL user_id equals nothing.
UpsertDailyPlan(user_id, plan_text) ==
    LET hit == {r \in daily_plans :
                    user_id # NoUser /\ r.user_id = user_id /\ r.plan_date = today}
    IN IF hit # {}
       THEN {IF r \in hit THEN [r EXCEPT !.plan_json = plan_text] ELSE r :
                r \in daily_plans}
       ELSE daily_plans \cup
                {[id |-> seqs.daily_plans + 1, user_id |-> user_id,
                  plan_date |-> today, plan_json |-> plan_text]}

\* build_daily_plan and the return of run_cycle (lines 166-170).
BuildDailyPlan(plan_text) ==
    /\ pc = "cycle"
    /\ cyc.step = "plan"
    /\ daily_plans' = UpsertDailyPlan(cyc.user, plan_text)
    /\ seqs' = [seqs EXCEPT !.daily_plans = seqs.daily_plans + 1]
    /\ pc' = "idle"
    /\ cyc' = NoCycle
    /\ lastOp' = [NoOp EXCEPT !.op = "cycle", !.user = cyc.user,
                     !.selected = Range(cyc.holes),
                     !.researched = cyc.researched, !.plan = plan_text]
    /\ UNCHANGED <<conversations, rabbit_holes, rabbit_hole_conversations,
                   insights, research_runs, now, today, tx, parse_vars,
                   norm_vars, agent_vars>>

InitStore ==
    /\ conversations = {}
    /\ rabbit_holes = {}
    /\ rabbit_hole_conversations = {}
    /\ insights = {}
    /\ research_runs = {}
    /\ daily_plans = {}
    /\ seqs = [rabbit_holes |-> 0, insights |-> 0, research_runs |-> 0,
               daily_plans |-> 0]
    /\ now = 0
    /\ today = 0
    /\ pc = "idle"
    /\ tx = NoTx
    /\ cyc = NoCycle
    /\ lastOp = NoOp
    /\ names = <<>>
    /\ keys = "none"
    /\ AGENT_STATUS = [running |-> FALSE, runs_completed |-> 0]
    /\ workers = [w \in 1..MaxWorkers |-> [kind |-> "none", at |-> "free"]]
    /\ reply = "none"

Init ==
    /\ raw = <<>>
    /\ parse_pc = "ready"
    /\ parse_entry = "none"
    /\ parsed = <<>>
    /\ InitStore

Next ==
    \/ \E u \in Owners, h \in ClassifierOutputs : Run(u, h)
    \/ \E u \in Owners : RunClassifyRaises(u)
    \/ \E u \in Owners : DedupBegin(u)
    \/ DedupStatement
    \/ DedupStatementFails
    \/ DedupCommit
    \/ \E u \in Owners, n \in 1..MaxLimit : CycleStart(u, n)
    \/ \E e \in {"HTTPStatusError", "JSONDecodeError"} : ResearchFails(e)
    \/ \E y \in SynthesisReplies : ResearchSynthesized(y)
    \/ InsertInsight
    \/ InsertResearchRun
    \/ UpdateRabbitHole
    \/ \E t \in PlanTexts : BuildDailyPlan(t)

Spec == Init /\ [][Next]_vars

\* Ingestion and research cycles against a store that may fail any
\* statement of the research persistence.
NextStoreFaults ==
    \/ \E u \in Owners, h \in ClassifierOutputs : Run(u, h)
    \/ \E u \in Owners, n \in 1..MaxLimit : CycleStart(u, n)
    \/ \E e \in {"HTTPStatusError", "JSONDecodeError"} : ResearchFails(e)
    \/ \E y \in SynthesisReplies : ResearchSynthesized(y)
    \/ InsertInsight
    \/ InsertResearchRun
    \/ UpdateRabbitHole
    \/ PersistFails
    \/ \E t \in PlanTexts : BuildDailyPlan(t)

SpecStoreFaults == Init /\ [][NextStoreFaults]_vars

\* -------------------------------------------------------- store: claims
Link(rh_id, user_id, cid) ==
    [rabbit_hole_id |-> rh_id, conversation_id |-> PrefixedId(user_id, cid)]

Stored(convs, user_id, cid) == \E r \in convs : r.id = PrefixedId(user_id, cid)

\* C1: a second run for the same user whose proposals all match, by
\* normalized name, topics the user already has (the clusters of the first
\* run) creates no topic row: it completes, every cluster resolves to the
\* stored topic and exactly the missing links to stored conversations are
\* added to it.
C1_SecondRunReusesTopics ==
    [][\A u \in Owners \ {NoUser} : \A h \in ClassifierOutputs \ {<<>>} :
        (/\ Run(u, h)
         /\ \A k \in 1..Len(h) :
                \E t \in rabbit_holes :
                    t.user_id = u /\ Norm(t.name) = Norm(h[k].name))
        => /\ lastOp'.raised = "none"
           /\ rabbit_holes' = rabbit_holes
           /\ rabbit_hole_conversations' =
                rabbit_hole_conversations \cup
                {Link(x[1].id, u, x[2]) :
                    x \in {y \in rabbit_holes \X {"c1", "c2", "c9"} :
                            /\ y[1].user_id = u
                            /\ Stored(conversations', u, y[2])
                            /\ \E k \in 1..Len(h) :
                                /\ Norm(y[1].name) = Norm(h[k].name)
                                /\ y[2] \in Range(h[k].conversation_ids)}}
      ]_vars

\* C2: no two stored topics of the same owner (a user, or no user in
\* single-tenant mode) have the same normalized name.
C2_NoDuplicateNames ==
    \A r, q \in rabbit_holes :
        (r.id # q.id /\ r.user_id = q.user_id) => Norm(r.name) # Norm(q.name)

LinksReferenceConversations(links, convs) ==
    \A l \in links : \E r \in convs : r.id = l.conversation_id

\* C3: every link references a stored conversation; and a run whose
\* classifier output proposes an id with no stored conversation raises no
\* error, creates no link for that id and still links every proposed id
\* that is stored to the cluster's topic.
C3_LinkSafety ==
    [][/\ LinksReferenceConversations(rabbit_hole_conversations', conversations')
       /\ \A u \in Owners : \A h \in ClassifierOutputs :
            (/\ Run(u, h)
             /\ \E k \in 1..Len(h) : \E cid \in Range(h[k].conversation_ids) :
                    ~Stored(conversations', u, cid))
            => /\ lastOp'.raised = "none"
               /\ \A k \in 1..Len(h) : \A cid \in Range(h[k].conversation_ids) :
                    IF Stored(conversations', u, cid)
                    THEN \E t \in rabbit_holes' :
                            /\ t.user_id = u
                            /\ Norm(t.name) = Norm(h[k].name)
                            /\ Link(t.id, u, cid) \in rabbit_hole_conversations'
                    ELSE \A l \in rabbit_hole_conversations' :
                            l.conversation_id # PrefixedId(u, cid)
      ]_vars

\* The merge run to its commit, as one function of the tables.
RECURSIVE ApplyAll(_)
ApplyAll(t) == IF t.work = <<>> THEN t ELSE ApplyAll(ApplyStmt(t))

\* C7: the maintenance merge is idempotent: in the state a merge has
\* committed, a second run for the same user merges nothing and commits
\* the same topics, links, insights and research runs.
C7_MergeIdempotent ==
    (pc = "idle" /\ lastOp.op = "dedup" /\ lastOp.raised = "none") =>
        LET again == ApplyAll(BeginTx(lastOp.user)) IN
        /\ again.merged = 0
        /\ again.rabbit_holes = rabbit_holes
        /\ again.links = rabbit_hole_conversations
        /\ again.insights = insights
        /\ again.runs = research_runs

\* C7 witness: a merge that moved links and an insight has committed.
C7_Witness ==
    /\ pc = "idle"
    /\ lastOp.op = "dedup"
    /\ lastOp.raised = "none"
    /\ lastOp.merged >= 1
    /\ insights # {}
    /\ rabbit_hole_conversations # {}

\* What a whole merge for user_id is to leave: of every group of rows of one
\* owner and one normalized name the row with the lowest id, carrying the
\* links, insights and research runs of all the rows of the group.
Canonical(user_id, id) ==
    LET rows == IF user_id = NoUser THEN rabbit_holes
                ELSE {r \in rabbit_holes : r.user_id = user_id}
        group == {q \in rows : \E r \in rows : r.id = id /\ SameKey(q, r)}
    IN IF group = {} THEN id
       ELSE CHOOSE m \in {q.id : q \in group} : \A q \in group : m <= q.id

Relinked(user_id, rows) ==
    {[r EXCEPT !.rabbit_hole_id = Canonical(user_id, r.rabbit_hole_id)] : r \in rows}

\* C8: the merge is atomic: while it runs, the tables others see do not
\* change; a failing statement leaves them as they were and the error
\* reaches the caller; they change only at the commit, and then to the
\* whole merge.
C8_MergeAtomic ==
    [][pc = "dedup" =>
        \/ /\ db' = db
           /\ pc' = "idle" => (lastOp'.raised = "StoreError" \/ tx.work = <<>>)
        \/ /\ pc' = "idle"
           /\ lastOp'.raised = "none"
           /\ rabbit_holes' = {r \in rabbit_holes : Canonical(tx.user, r.id) = r.id}
           /\ rabbit_hole_conversations' = Relinked(tx.user, rabbit_hole_conversations)
           /\ insights' = Relinked(tx.user, insights)
           /\ research_runs' = Relinked(tx.user, research_runs)
           /\ UNCHANGED <<conversations, daily_plans>>
      ]_vars

\* C8 witness: a merge failed after statements of the group had run, and
\* the duplicates, their links and the insights are still all there.
C8_Witness ==
    /\ pc = "idle"
    /\ lastOp.op = "dedup"
    /\ lastOp.raised = "StoreError"
    /\ lastOp.partial
    /\ DedupPlan(rabbit_holes, lastOp.user) # <<>>
    /\ \E p \in Range(DedupPlan(rabbit_holes, lastOp.user)) :
            /\ \E l \in rabbit_hole_conversations : l.rabbit_hole_id = p[2]
            /\ \E i \in insights : i.rabbit_hole_id = p[2]

\* The state in which get_stale_rabbit_holes has just returned to run_cycle.
JustSelected == pc = "cycle" /\ cyc.idx = 1 /\ cyc.step = "research"

SelectedRow(i) == CHOOSE r \in rabbit_holes : r.id = cyc.holes[i]

InScope(r) == cyc.user = NoUser \/ r.user_id = cyc.user

C10_FailureDoesNotAbortCycle ==
    (/\ pc = "idle"
     /\ lastOp.op = "cycle"
     /\ lastOp.failed # 0)
    => /\ lastOp.raised = "none"
       /\ lastOp.plan # "none"
       /\ lastOp.selected \ {lastOp.failed} \subseteq lastOp.researched

\* The stored row of a topic.
HoleRow(holes, id) == CHOOSE r \in holes : r.id = id

\* C11: the three writes of one research pass are one transaction: a step
\* of the persistence either applies none of them or all three (the
\* insight, the research run and the topic's last-researched timestamp),
\* so no reader and no failure partway sees a strict subset.
C11_ResearchPersistedWhole ==
    [][(pc = "cycle" /\ cyc.step \in {"insight", "run", "update"}) =>
        \/ /\ insights' = insights
           /\ research_runs' = research_runs
           /\ rabbit_holes' = rabbit_holes
        \/ /\ \E i \in insights' \ insights : i.rabbit_hole_id = CurrentHole
           /\ \E r \in research_runs' \ research_runs : r.rabbit_hole_id = CurrentHole
           /\ HoleRow(rabbit_holes', CurrentHole).last_researched_at
                # HoleRow(rabbit_holes, CurrentHole).last_researched_at
      ]_vars

\* C12: for every owner (a user, or no user) and every calendar date there
\* is at most one daily plan, and after a cycle that generated a plan the
\* owner's row for today holds that plan's text.
C12_OnePlanPerOwnerAndDate ==
    /\ \A r, q \in daily_plans :
            (r.user_id = q.user_id /\ r.plan_date = q.plan_date) => r.id = q.id
    /\ (pc = "idle" /\ lastOp.op = "cycle" /\ lastOp.plan # "none") =>
            \A r \in daily_plans :
                (r.user_id = lastOp.user /\ r.plan_date = today)
                    => r.plan_json = lastOp.plan

\* The conversations of the export among `ids`, and their message total.
ExportAmong(ids) == {c \in Range(ExportConvs) : c.id \in ids}

RECURSIVE TotalMessages(_)
TotalMessages(convs) ==
    IF convs = {} THEN 0
    ELSE LET c == CHOOSE x \in convs : TRUE
         IN c.message_count + TotalMessages(convs \ {c})

\* Every update-time and create-time the conversations carry.
Stamps(convs) ==
    ({c.updated_at : c \in convs} \cup {c.created_at : c \in convs}) \ {NoneTs}

\* Whole days from the most recent of `stamps` to day t.
DaysAgo(stamps, t) == t - (CHOOSE m \in stamps : \A x \in stamps : x <= m)

\* The conversations a topic is linked to after a run for user_id.
LinkedAfter(user_id, rh_id) ==
    {c \in Range(ExportConvs) :
        Link(rh_id, user_id, c.id) \in rabbit_hole_conversations'}

\* C13: the priority stored for a newly created topic is, in hundredths,
\* 200*N + 10*M + max(0, 1000 - 10*days_ago), N the number of conversations
\* linked to the topic and M their total message count (checked where a
\* linked conversation carries a timestamp, so that days_ago is not in
\* question).
C13_PriorityFormula ==
    [][\A u \in Owners : \A h \in ClassifierOutputs :
        Run(u, h) =>
            \A t \in rabbit_holes' \ rabbit_holes :
                LET linked == LinkedAfter(u, t.id) IN
                Stamps(linked) # {} =>
                    t.priority_score =
                        200 * Cardinality(linked) + 10 * TotalMessages(linked)
                        + Max2(0, 1000 - 10 * DaysAgo(Stamps(linked), FirstDay + today))
      ]_vars

\* The merged cluster a new topic was created from.
ClusterOf(h, t) ==
    LET m == MergeHoles(h, <<>>) IN
    m[CHOOSE k \in 1..Len(m) : Norm(m[k].name) = Norm(t.name)]

\* C17: the recency bonus of a new topic is measured from the most recent
\* of the update- and create-times of the cluster's conversations, and is
\* the maximum 10 (days_ago 0) when none of them has any timestamp.
C17_RecencyReference ==
    [][\A u \in Owners : \A h \in ClassifierOutputs :
        Run(u, h) =>
            \A t \in rabbit_holes' \ rabbit_holes :
                LET ids == ClusterOf(h, t).conversation_ids
                    data == ExportAmong(Range(ids))
                    days_ago == IF Stamps(data) = {} THEN 0
                                ELSE DaysAgo(Stamps(data), FirstDay + today)
                IN data # {} =>
                    t.priority_score =
                        200 * Len(ids) + 10 * TotalMessages(data)
                        + Max2(0, 1000 - 10 * days_ago)
      ]_vars

\* C18: the clusters handed to reconciliation have pairwise different
\* normalized names, and each one's conversation ids are the union of the
\* ids of all proposals of its name, no id twice, also for a name proposed
\* once.
C18_MergedClusters ==
    [][\A u \in Owners : \A h \in ClassifierOutputs :
        Run(u, h) =>
            LET m == MergeHoles(h, <<>>) IN
            /\ \A j \in 1..Len(h) : \E k \in 1..Len(m) : Norm(m[k].name) = Norm(h[j].name)
            /\ \A k, l \in 1..Len(m) : Norm(m[k].name) = Norm(m[l].name) => k = l
            /\ \A k \in 1..Len(m) :
                LET ids == m[k].conversation_ids IN
                /\ \A a, b \in 1..Len(ids) : ids[a] = ids[b] => a = b
                /\ Range(ids) =
                        UNION {Range(h[j].conversation_ids) :
                                j \in {i \in 1..Len(h) : Norm(h[i].name) = Norm(m[k].name)}}
      ]_vars

\* C15: a run in which the reply for one classification batch is not valid
\* JSON skips that batch: it does what a run does whose classifier output
\* is the clusters of the other batches (possibly none), and does not end
\* in the parse error.
C15_BadBatchSkipped ==
    [][\A u \in Owners :
        RunClassifyRaises(u) =>
            /\ lastOp'.raised # "JSONDecodeError"
            /\ \E h \in ClassifierOutputs : Run(u, h)
      ]_vars

\* C20: every stored insight has an urgency of high, medium or low, "low"
\* standing for a reply without the field.
C20_InsightUrgency ==
    \A i \in insights : i.urgency \in {"high", "medium", "low"}

\* The rows of rabbit_hole_id-keyed table `rows` that belong to `ids`.
Of(rows, ids) == {r \in rows : r.rabbit_hole_id \in ids}

\* C16: when the merge commits, of every group of topics in its scope with
\* one owner and one normalized name only the topic with the lowest id is
\* left; its links are the union of the members' links, and every insight
\* and research run of a member belongs to it, none lost.
C16_MergeResult ==
    [][(pc = "dedup" /\ pc' = "idle" /\ lastOp'.raised = "none") =>
        /\ \A r \in rabbit_holes :
            (tx.user = NoUser \/ r.user_id = tx.user) =>
                LET group == {q \in rabbit_holes :
                                q.user_id = r.user_id /\ Norm(q.name) = Norm(r.name)}
                    ids == {q.id : q \in group}
                    low == CHOOSE m \in ids : \A x \in ids : m <= x
                IN /\ \A q \in group : (q \in rabbit_holes') <=> (q.id = low)
                   /\ {l.conversation_id : l \in Of(rabbit_hole_conversations', {low})}
                        = {l.conversation_id : l \in Of(rabbit_hole_conversations, ids)}
                   /\ {i.id : i \in Of(insights', {low})} = {i.id : i \in Of(insights, ids)}
                   /\ {i.id : i \in Of(research_runs', {low})}
                        = {i.id : i \in Of(research_runs, ids)}
        /\ {i.id : i \in insights'} = {i.id : i \in insights}
        /\ {i.id : i \in research_runs'} = {i.id : i \in research_runs}
        /\ \A r \in rabbit_holes \ rabbit_holes' :
                Of(rabbit_hole_conversations', {r.id}) = {}
      ]_vars

\* C16 witness: a merge has committed that left a topic proposed with one
\* conversation holding two links, an insight and a research run.
C16_Witness ==
    /\ pc = "idle"
    /\ lastOp.op = "dedup"
    /\ lastOp.raised = "none"
    /\ lastOp.merged >= 1
    /\ \E t \in rabbit_holes :
        /\ t.name = NameAmp
        /\ Cardinality(Of(rabbit_hole_conversations, {t.id})) = 2
        /\ Of(insights, {t.id}) # {}
        /\ Of(research_runs, {t.id}) # {}

\* C19: a research pass that does not complete leaves the topic's
\* last-researched timestamp as it was at every step, and when it throws
\* every selection of a next cycle is what it was before the throw.
C19_FailedTopicStaysStale ==
    [][(pc = "cycle" /\ cyc.step # "plan") =>
        \/ CurrentHole \in cyc'.researched
        \/ /\ HoleRow(rabbit_holes', CurrentHole).last_researched_at
                = HoleRow(rabbit_holes, CurrentHole).last_researched_at
           /\ (pc' = "idle" /\ lastOp'.failed = CurrentHole) =>
                \A u \in Owners : \A n \in 1..MaxLimit :
                    StaleSelections(n, u)' = StaleSelections(n, u)
      ]_vars

\* C19 witness: the research of a topic researched before has thrown after
\* its insight was stored.
C19_Witness ==
    /\ pc = "idle"
    /\ lastOp.op = "cycle"
    /\ lastOp.failed # 0
    /\ HoleRow(rabbit_holes, lastOp.failed).last_researched_at # NoneTs
    /\ Cardinality(Of(insights, {lastOp.failed}))
            > Cardinality(Of(research_runs, {lastOp.failed}))

\* ==================================================== the parser calls
ParseCall(entry) ==
    /\ parse_pc = "ready"
    /\ LET r == ParseResult(raw) IN
        /\ parse_pc' = IF r.raised THEN "raised" ELSE "returned"
        /\ parsed' = r.conversations
    /\ parse_entry' = entry
    /\ UNCHANGED <<raw, store_vars, norm_vars, agent_vars>>

\* parse_conversations(filepath)
ParseConversations == ParseCall("file")

\* parse_conversations_bytes(data)
ParseConversationsBytes == ParseCall("bytes")

\* The export holds no, one or two conversation records.
InitParse ==
    /\ \/ raw = <<>>
       \/ \E m \in Mappings : raw = <<m>>
       \/ \E m, n \in Mappings : raw = <<m, n>>
    /\ parse_pc = "ready"
    /\ parse_entry = "none"
    /\ parsed = <<>>
    /\ InitStore

NextParse == ParseConversations \/ ParseConversationsBytes

SpecParse == InitParse /\ [][NextParse]_vars

\* ------------------------------------------------------ parser: claims
Timestamped(m) == m.created_at # NoneTs

\* C4: in every message list the parser returns, the timestamped messages
\* are in non-decreasing timestamp order and every message with a null
\* timestamp comes after all the timestamped ones.
C4_NullTimestampsLast ==
    parse_pc = "returned" =>
        \A c \in 1..Len(parsed) :
            LET ms == parsed[c].messages IN
            \A i, j \in 1..Len(ms) :
                i < j =>
                    /\ (Timestamped(ms[i]) /\ Timestamped(ms[j]))
                            => ms[i].created_at <= ms[j].created_at
                    /\ ~Timestamped(ms[i]) => ~Timestamped(ms[j])

\* The claim's text-bearing part: a string with a non-whitespace character.
NonBlankPart(p) == p.is_str /\ \E i \in 1..Len(p.s) : ~IsSpace(p.s[i])

\* The nodes the claim counts: a message, role user or assistant, at least
\* one non-blank string part.
Qualifies(node) ==
    /\ node.node = "obj"
    /\ node.message = "obj"
    /\ node.author = "obj"
    /\ node.role \in {"user", "assistant"}
    /\ node.content = "obj"
    /\ node.parts = "list"
    /\ \E k \in 1..Len(node.items) : NonBlankPart(node.items[k])

MessageIds(conv) == {conv.messages[k].id : k \in 1..Len(conv.messages)}

\* C5: a returned message list holds exactly the qualifying nodes of its
\* record, each once; every message has role user or assistant and text
\* that is not blank; message_count is the length of the list.
C5_ExactlyQualifyingMessages ==
    parse_pc = "returned" =>
        /\ Len(parsed) = Len(raw)
        /\ \A c \in 1..Len(parsed) :
            LET conv == parsed[c] IN
            /\ MessageIds(conv) = {i \in 1..Len(raw[c]) : Qualifies(raw[c][i])}
            /\ Cardinality(MessageIds(conv)) = Len(conv.messages)
            /\ conv.message_count = Len(conv.messages)
            /\ \A k \in 1..Len(conv.messages) :
                /\ conv.messages[k].role \in {"user", "assistant"}
                /\ \E i \in 1..Len(conv.messages[k].content) :
                       ~IsSpace(conv.messages[k].content[i])

\* C5 witness: a full record with a system message beside qualifying ones
\* is returned with the system message left out of the count.
C5_Witness ==
    /\ parse_pc = "returned"
    /\ \E c \in 1..Len(parsed) :
        /\ Len(raw[c]) = MaxNodes
        /\ \E i \in 1..Len(raw[c]) : raw[c][i] = NodeSystem
        /\ parsed[c].message_count = MaxNodes - 1
        /\ parsed[c].message_count >= 1

WellFormedRecord(mapping) ==
    \A i \in 1..Len(mapping) : mapping[i] \in WellFormedNodes

\* C6: the parser never raises because of one malformed record: when one
\* record of the export is malformed and the others are well formed, the
\* call returns, and returns the well-formed conversations.
C6_MalformedRecordIsolated ==
    (/\ parse_pc # "ready"
     /\ Cardinality({c \in 1..Len(raw) : ~WellFormedRecord(raw[c])}) = 1
     /\ Cardinality({c \in 1..Len(raw) : WellFormedRecord(raw[c])}) >= 1)
    => /\ parse_pc = "returned"
       /\ \A c \in 1..Len(raw) :
            WellFormedRecord(raw[c]) =>
                \E k \in 1..Len(parsed) : parsed[k].id = c

\* ================================================ the normalizer calls
\* A name is written from words; a word is letters and the conjunction
\* mark Amp.  A writing chooses the letter case, the whitespace before,
\* after and between the words, and "&" or "and" for the conjunction.
Amp == "<&>"

NameWords ==
    { <<"G", "o">>, <<"R">>, <<Amp>>, <<"R", Amp, "D">> }

Writings ==
    [case : {"keep", "upper", "lower"},
     lead : {<<>>, <<" ">>},
     trail : {<<>>, <<"\n">>},
     sep : {<<" ">>, <<" ", "\t", " ">>},
     amp : {<<"&">>, <<"a", "n", "d">>}]

UpperChar(c) ==
    CASE c = "r" -> "R"
      [] c = "d" -> "D"
      [] c = "g" -> "G"
      [] c = "o" -> "O"
      [] c = "a" -> "A"
      [] c = "n" -> "N"
      [] OTHER -> c

RECURSIVE WriteWord(_, _)
WriteWord(word, w) ==
    IF word = <<>> THEN <<>>
    ELSE (IF Head(word) = Amp THEN w.amp ELSE <<Head(word)>>)
            \o WriteWord(Tail(word), w)

Cased(s, w) ==
    [i \in 1..Len(s) |->
        CASE w.case = "upper" -> UpperChar(s[i])
          [] w.case = "lower" -> LowerChar(s[i])
          [] OTHER -> s[i]]

\* The name of `words` in writing w.
Written(words, w) ==
    w.lead
    \o Cased(Join(w.sep, [i \in 1..Len(words) |-> WriteWord(words[i], w)]), w)
    \o w.trail

\* Two calls of _normalize_rh_name, on the two names.
NormalizeNames ==
    /\ keys = "none"
    /\ keys' = <<NormalizeRhName(names[1]), NormalizeRhName(names[2])>>
    /\ UNCHANGED <<names, parse_vars, store_vars, agent_vars>>

\* The two names are two writings of the same one or more words.
InitNorm ==
    /\ \E n \in 1..MaxWords : \E words \in [1..n -> NameWords] :
        \E v, w \in Writings :
            names = <<Written(words, v), Written(words, w)>>
    /\ keys = "none"
    /\ raw = <<>>
    /\ parse_pc = "ready"
    /\ parse_entry = "none"
    /\ parsed = <<>>
    /\ conversations = {}
    /\ rabbit_holes = {}
    /\ rabbit_hole_conversations = {}
    /\ insights = {}
    /\ research_runs = {}
    /\ daily_plans = {}
    /\ seqs = [rabbit_holes |-> 0, insights |-> 0, research_runs |-> 0,
               daily_plans |-> 0]
    /\ now = 0
    /\ today = 0
    /\ pc = "idle"
    /\ tx = NoTx
    /\ cyc = NoCycle
    /\ lastOp = NoOp
    /\ AGENT_STATUS = [running |-> FALSE, runs_completed |-> 0]
    /\ workers = [w \in 1..MaxWorkers |-> [kind |-> "none", at |-> "free"]]
    /\ reply = "none"

NextNorm == NormalizeNames

SpecNorm == InitNorm /\ [][NextNorm]_vars

\* ---------------------------------------------------- normalizer: claims
\* C14: two names that differ only in letter case, in leading or trailing
\* whitespace, in the length of the whitespace between words, or in "&"
\* for the word "and" get the same key.
C14_SameKey ==
    keys # "none" => keys[1] = keys[2]

\* C14 witness: keys were computed for two names of several words that
\* differ in all four ways at once.
C14_Witness ==
    /\ keys # "none"
    /\ "&" \in Range(names[1])
    /\ "&" \notin Range(names[2])
    /\ "A" \in Range(names[2])
    /\ Head(names[1]) = " "
    /\ names[2][Len(names[2])] = "\n"
    /\ "\t" \in Range(names[1])
    /\ "\t" \notin Range(names[2])

\* ============================================ the agent status (main.py)
\* A worker is a thread of the server's pool or of the scheduler.  It is
\* free, holds a queued background task, runs a research cycle, or has come
\* back from one and not yet written AGENT_STATUS.
FreeWorker == [kind |-> "none", at |-> "free"]

InFlight(kinds) == {w \in 1..MaxWorkers : workers[w].kind \in kinds}

\* POST /agent/run (trigger_agent, lines 266-281).  The handler reads
\* AGENT_STATUS["running"]; the task it queues sets it only when a thread
\* picks the task up, after the reply.
TriggerAgent(w, authorized) ==
    /\ IF ~authorized
       THEN /\ reply' = "unauthorized"
            /\ UNCHANGED workers
       ELSE IF AGENT_STATUS.running
       THEN /\ reply' = "already_running"
            /\ UNCHANGED workers
       ELSE /\ workers[w].at = "free"
            /\ AGENT_STATUS.runs_completed
                    + Cardinality(InFlight({"trigger", "scheduled"})) < MaxRuns
            /\ workers' = [workers EXCEPT ![w] = [kind |-> "trigger", at |-> "queued"]]
            /\ reply' = "started"
    /\ UNCHANGED <<AGENT_STATUS, parse_vars, store_vars, norm_vars>>

\* _run_for_user, lines 274-276: the flag is set, run_cycle is entered.
RunForUserBegins(w) ==
    /\ workers[w] = [kind |-> "trigger", at |-> "queued"]
    /\ AGENT_STATUS' = [AGENT_STATUS EXCEPT !.running = TRUE]
    /\ workers' = [workers EXCEPT ![w].at = "cycle"]
    /\ UNCHANGED <<reply, parse_vars, store_vars, norm_vars>>

\* scheduled_research, lines 57-59, run by the scheduler every six hours
\* (line 35; the scheduler runs one instance of a job at a time).  It does
\* not read the flag.
ScheduledResearchBegins(w) ==
    /\ workers[w].at = "free"
    /\ InFlight({"scheduled"}) = {}
    /\ AGENT_STATUS.runs_completed
            + Cardinality(InFlight({"trigger", "scheduled"})) < MaxRuns
    /\ AGENT_STATUS' = [AGENT_STATUS EXCEPT !.running = TRUE]
    /\ workers' = [workers EXCEPT ![w] = [kind |-> "scheduled", at |-> "cycle"]]
    /\ UNCHANGED <<reply, parse_vars, store_vars, norm_vars>>

\* _background_setup, line 124, queued by signup (line 114): run_cycle is
\* entered; the flag is neither read nor written.
BackgroundSetupBegins(w) ==
    /\ workers[w].at = "free"
    /\ workers' = [workers EXCEPT ![w] = [kind |-> "setup", at |-> "cycle"]]
    /\ UNCHANGED <<AGENT_STATUS, reply, parse_vars, store_vars, norm_vars>>

\* run_cycle (run_cycle_all_users) returns to its caller.
RunCycleReturns(w) ==
    /\ workers[w].at = "cycle"
    /\ workers' = [workers EXCEPT ![w] =
                    IF workers[w].kind = "setup" THEN FreeWorker
                    ELSE [workers[w] EXCEPT !.at = "returned"]]
    /\ UNCHANGED <<AGENT_STATUS, reply, parse_vars, store_vars, norm_vars>>

\* run_cycle raises (agent.py:162-167 has no handler): the exception leaves
\* the task function at line 276 (59), past the lines that follow it.
RunCycleRaises(w) ==
    /\ workers[w].at = "cycle"
    /\ workers' = [workers EXCEPT ![w] = FreeWorker]
    /\ UNCHANGED <<AGENT_STATUS, reply, parse_vars, store_vars, norm_vars>>

\* Lines 277-278 (60-61).
StatusReset(w) ==
    /\ workers[w].at = "returned"
    /\ AGENT_STATUS' = [running |-> FALSE,
                        runs_completed |-> AGENT_STATUS.runs_completed + 1]
    /\ workers' = [workers EXCEPT ![w] = FreeWorker]
    /\ UNCHANGED <<reply, parse_vars, store_vars, norm_vars>>

NextAgent ==
    \E w \in 1..MaxWorkers :
        \/ \E authorized \in BOOLEAN : TriggerAgent(w, authorized)
        \/ RunForUserBegins(w)
        \/ ScheduledResearchBegins(w)
        \/ BackgroundSetupBegins(w)
        \/ RunCycleReturns(w)
        \/ RunCycleRaises(w)
        \/ StatusReset(w)

SpecAgent == Init /\ [][NextAgent]_vars

\* -------------------------------------------------- agent status: claims
\* C21: a research cycle starts only when AGENT_STATUS["running"] is false,
\* and no two cycles run at the same time.
C21_OneCycleAtATime ==
    [][/\ \A w \in 1..MaxWorkers :
            (workers[w].at # "cycle" /\ workers'[w].at = "cycle")
                => ~AGENT_STATUS.running
       /\ Cardinality({w \in 1..MaxWorkers : workers'[w].at = "cycle"}) <= 1
      ]_vars

\* C22: once every cycle started by trigger_agent or scheduled_research
\* has ended, by returning or by raising, AGENT_STATUS["running"] is false
\* again (so that POST /agent/run can be answered "started").
C22_RunningReset ==
    (\A w \in 1..MaxWorkers : workers[w].at = "free") => ~AGENT_STATUS.running
====
